---- MODULE Spec2Model ----
(***************************************************************************)
(* Model of the SIMPLE RISC converter of src/app.py: the instruction       *)
(* encoder parse_instruction, the two-pass assembler assemble_from_string  *)
(* and the "Convert to Binary" handler that consumes its result.           *)
(*                                                                         *)
(* A Python string is a sequence of one-character strings, so that find,   *)
(* slicing, split, strip, int() and the format mini-language are computed  *)
(* the way the interpreter computes them.                                   *)
(***************************************************************************)
EXTENDS Integers, Sequences, FiniteSets, TLC

VARIABLES asm_code, pc, lines, i, address, labels_dict, result, has_error,
          exc, ui, binary_content, line1, binary_code

vars == <<asm_code, pc, lines, i, address, labels_dict, result, has_error,
          exc, ui, binary_content, line1, binary_code>>

----------------------------------------------------------------------------
(* Python string primitives                                                *)

Min(a, b) == IF a < b THEN a ELSE b

Max(a, b) == IF a > b THEN a ELSE b

\* str.isspace for the characters a line can hold after splitlines
Whitespace == {" ", "\t"}

\* the separator class [\s,] of the split pattern
Separators == Whitespace \cup {","}

DigitChars == <<"0", "1", "2", "3", "4", "5", "6", "7", "8", "9">>

\* str.find(c): 0-based index of the first occurrence, -1 when absent
Find(s, c) ==
    IF \E k \in 1..Len(s) : s[k] = c
    THEN (CHOOSE k \in 1..Len(s) : s[k] = c /\ \A j \in 1..(k - 1) : s[j] # c) - 1
    ELSE -1

\* c in s
Contains(s, c) == \E k \in 1..Len(s) : s[k] = c

\* a slice bound as Python normalises it: negative counts from the end, then clamped
SliceIndex(k, n) == IF k < 0 THEN Max(k + n, 0) ELSE Min(k, n)

\* s[lo:hi]
Slice(s, lo, hi) ==
    LET a == SliceIndex(lo, Len(s))
        b == SliceIndex(hi, Len(s))
    IN  IF a >= b THEN <<>> ELSE SubSeq(s, a + 1, b)

\* s[lo:]
SliceFrom(s, lo) == Slice(s, lo, Len(s))

\* s[:hi]
SliceTo(s, hi) == Slice(s, 0, hi)

\* s.startswith(p)
StartsWith(s, p) == Len(s) >= Len(p) /\ SubSeq(s, 1, Len(p)) = p

\* s.endswith(c) for a one-character c
EndsWith(s, c) == Len(s) >= 1 /\ s[Len(s)] = c

RECURSIVE RStrip(_, _)
\* s.rstrip(chars): every trailing character of the set is removed
RStrip(s, chars) ==
    IF Len(s) >= 1 /\ s[Len(s)] \in chars
    THEN RStrip(SubSeq(s, 1, Len(s) - 1), chars)
    ELSE s

RECURSIVE LStrip(_, _)
LStrip(s, chars) ==
    IF Len(s) >= 1 /\ s[1] \in chars THEN LStrip(Tail(s), chars) ELSE s

\* s.strip()
Strip(s) == LStrip(RStrip(s, Whitespace), Whitespace)

RECURSIVE SplitFrom(_, _, _, _)
\* the scan of re.split: cur is the piece being read, inSep whether the last
\* character belonged to a separator run (a run ends exactly one piece)
SplitFrom(s, k, cur, inSep) ==
    IF k > Len(s) THEN <<cur>>
    ELSE IF s[k] \in Separators
         THEN IF inSep THEN SplitFrom(s, k + 1, cur, TRUE)
              ELSE <<cur>> \o SplitFrom(s, k + 1, <<>>, TRUE)
         ELSE SplitFrom(s, k + 1, Append(cur, s[k]), FALSE)

\* re.split(r"[\s,]+", line): the pieces between separator runs, empty ones included
ReSplit(line) == SplitFrom(line, 1, <<>>, FALSE)

RECURSIVE NonEmpty(_)
\* [x.strip() for x in ... if x]
NonEmpty(ps) ==
    IF ps = <<>> THEN <<>>
    ELSE IF Head(ps) = <<>> THEN NonEmpty(Tail(ps))
         ELSE <<Strip(Head(ps))>> \o NonEmpty(Tail(ps))

RECURSIVE SplitLinesFrom(_, _, _)
SplitLinesFrom(s, k, cur) ==
    IF k > Len(s) THEN (IF cur = <<>> THEN <<>> ELSE <<cur>>)
    ELSE IF s[k] = "\n" THEN <<cur>> \o SplitLinesFrom(s, k + 1, <<>>)
         ELSE SplitLinesFrom(s, k + 1, Append(cur, s[k]))

\* str.splitlines(): no final empty line after a trailing line break
SplitLines(s) == SplitLinesFrom(s, 1, <<>>)

RECURSIVE Digits(_, _)
\* the digits of n >= 0 in the given base, most significant first
Digits(n, base) ==
    IF n < base THEN <<DigitChars[n + 1]>>
    ELSE Append(Digits(n \div base, base), DigitChars[(n % base) + 1])

\* str(n), as in f"r{i}" and f"{line_number}"
IntToStr(n) == IF n < 0 THEN <<"-">> \o Digits(0 - n, 10) ELSE Digits(n, 10)

Repeat(c, n) == [k \in 1..Max(n, 0) |-> c]

\* f"{x:0<width>b}": sign first, then zeros up to the width, then the binary digits
FormatZeroB(x, width) ==
    LET sign == IF x < 0 THEN <<"-">> ELSE <<>>
        ds   == Digits(IF x < 0 THEN 0 - x ELSE x, 2)
    IN  sign \o Repeat("0", width - Len(sign) - Len(ds)) \o ds

\* f"{x:<width>b}": right-aligned in the width, padded with spaces
FormatSpaceB(x, width) ==
    LET sign == IF x < 0 THEN <<"-">> ELSE <<>>
        ds   == Digits(IF x < 0 THEN 0 - x ELSE x, 2)
    IN  Repeat(" ", width - Len(sign) - Len(ds)) \o sign \o ds

\* s.ljust(width, '0')
LJust(s, width) == s \o Repeat("0", width - Len(s))

DigitVal(c) == (CHOOSE k \in 1..10 : DigitChars[k] = c) - 1

IsDigit(c) == \E k \in 1..10 : DigitChars[k] = c

RECURSIVE DecVal(_)
DecVal(ds) ==
    IF ds = <<>> THEN 0
    ELSE 10 * DecVal(SubSeq(ds, 1, Len(ds) - 1)) + DigitVal(ds[Len(ds)])

\* int(s) succeeds: surrounding whitespace, one optional sign, at least one digit
\* (the underscores int() accepts between digits occur in no input here)
IsInt(s) ==
    LET t  == Strip(s)
        ds == IF Len(t) >= 1 /\ t[1] \in {"+", "-"} THEN Tail(t) ELSE t
    IN  Len(ds) >= 1 /\ \A k \in 1..Len(ds) : IsDigit(ds[k])

\* int(s), where it succeeds
ToInt(s) ==
    LET t == Strip(s)
    IN  IF t[1] = "-" THEN 0 - DecVal(Tail(t))
        ELSE IF t[1] = "+" THEN DecVal(Tail(t))
        ELSE DecVal(t)

----------------------------------------------------------------------------
(* The tables                                                              *)

\* the (mnemonic, opcode) pairs of opcode_map
OpcodePairs ==
    { <<<<"a", "d", "d">>, <<"0", "0", "0", "0", "0">>>>,
      <<<<"s", "u", "b">>, <<"0", "0", "0", "0", "1">>>>,
      <<<<"m", "u", "l">>, <<"0", "0", "0", "1", "0">>>>,
      <<<<"d", "i", "v">>, <<"0", "0", "0", "1", "1">>>>,
      <<<<"m", "o", "d">>, <<"0", "0", "1", "0", "0">>>>,
      <<<<"c", "m", "p">>, <<"0", "0", "1", "0", "1">>>>,
      <<<<"a", "n", "d">>, <<"0", "0", "1", "1", "0">>>>,
      <<<<"o", "r">>, <<"0", "0", "1", "1", "1">>>>,
      <<<<"n", "o", "t">>, <<"0", "1", "0", "0", "0">>>>,
      <<<<"m", "o", "v">>, <<"0", "1", "0", "0", "1">>>>,
      <<<<"l", "s", "l">>, <<"0", "1", "0", "1", "0">>>>,
      <<<<"l", "s", "r">>, <<"0", "1", "0", "1", "1">>>>,
      <<<<"a", "s", "r">>, <<"0", "1", "1", "0", "0">>>>,
      <<<<"n", "o", "p">>, <<"0", "1", "1", "0", "1">>>>,
      <<<<"l", "d">>, <<"0", "1", "1", "1", "0">>>>,
      <<<<"s", "t">>, <<"0", "1", "1", "1", "1">>>>,
      <<<<"b", "e", "q">>, <<"1", "0", "0", "0", "0">>>>,
      <<<<"b", "g", "t">>, <<"1", "0", "0", "0", "1">>>>,
      <<<<"b">>, <<"1", "0", "0", "1", "0">>>>,
      <<<<"c", "a", "l", "l">>, <<"1", "0", "0", "1", "1">>>>,
      <<<<"r", "e", "t">>, <<"1", "0", "1", "0", "0">>>>,
      <<<<"h", "l", "t">>, <<"1", "1", "1", "1", "1">>>> }

\* opcode_map: mnemonic -> 5-character opcode
opcode_map ==
    [m \in {p[1] : p \in OpcodePairs} |-> (CHOOSE p \in OpcodePairs : p[1] = m)[2]]

\* registers: "r0".."r15" -> 0..15
registers ==
    [n \in {<<"r">> \o IntToStr(k) : k \in 0..15} |->
        CHOOSE k \in 0..15 : n = <<"r">> \o IntToStr(k)]

\* the mnemonics of the first class test of parse_instruction
ArithLogicInstrs ==
    { <<"a", "d", "d">>,
      <<"s", "u", "b">>,
      <<"m", "u", "l">>,
      <<"d", "i", "v">>,
      <<"m", "o", "d">>,
      <<"a", "n", "d">>,
      <<"o", "r">>,
      <<"l", "s", "l">>,
      <<"l", "s", "r">>,
      <<"a", "s", "r">> }

ZeroOperandInstrs == { <<"n", "o", "p">>, <<"r", "e", "t">>, <<"h", "l", "t">> }

BranchInstrs == { <<"c", "a", "l", "l">>, <<"b">>, <<"b", "e", "q">>, <<"b", "g", "t">> }

UnaryInstrs == { <<"n", "o", "t">>, <<"m", "o", "v">> }

MemoryInstrs == { <<"l", "d">>, <<"s", "t">> }

CmpInstr == <<"c", "m", "p">>

----------------------------------------------------------------------------
(* parse_instruction                                                       *)

\* what a call yields: a string, None, or the exception that leaves it
Str(s) == [tag |-> "str", s |-> s]

None == [tag |-> "None", s |-> <<>>]

Raise(e) == [tag |-> e, s |-> <<>>]

\* the text every message of parse_instruction starts with
ErrorPrefix == <<"E", "r", "r", "o", "r">>

\* f"Error: {text}", the text kept as the pieces the f-string joins
ErrorMsg(text) == Str(ErrorPrefix \o <<":", " ">> \o text)

\* the part of line1 that is parsed: what follows the first colon, if any
LineBody(l1) == IF Contains(l1, ":") THEN SliceFrom(l1, Find(l1, ":") + 1) ELSE l1

\* parts = [x.strip() for x in re.split(r"[\s,]+", line) if x]
Parts(l1) == NonEmpty(ReSplit(LineBody(l1)))

\* modifier: 'u' or 'h' when the mnemonic ends with it
Modifier(instr) ==
    IF EndsWith(instr, "u") THEN "u" ELSE IF EndsWith(instr, "h") THEN "h" ELSE ""

\* base_instr = instr.rstrip("uh")
BaseInstr(instr) == RStrip(instr, {"u", "h"})

\* the sign adjustment left out: a negative value is rendered as it is
TwosComplementNoWrap(v, bits) == v

\* (1 << bits) + v for a negative v, v itself otherwise
TwosComplement(v, bits) == IF v < 0 THEN (2 ^ bits) + v ELSE v

\* the two characters an immediate form puts before the immediate
ImmKind(modifier) ==
    IF modifier = "u" THEN <<"0", "1">>
    ELSE IF modifier = "h" THEN <<"1", "0">>
    ELSE <<"0", "0">>

Reg4(name) == FormatZeroB(registers[name], 4)

IsReg(tok) == tok \in DOMAIN registers

\* f"{imm_val:016b}" after the sign adjustment
Imm16(tok) == FormatZeroB(TwosComplement(ToInt(tok), 16), 16)

\* add, sub, mul, div, mod, and, or, lsl, lsr, asr
ArithLogic(opcode, instr, modifier, parts, line) ==
    IF Len(parts) < 4
    THEN ErrorMsg(<<"Missing operands for instruction '">> \o instr \o <<"' in line: ">> \o line)
    ELSE IF Len(parts) > 4
    THEN ErrorMsg(<<"Unexpected operands for instruction '">> \o instr \o <<"' in line: ">> \o line)
    ELSE IF ~IsReg(parts[2]) \/ ~IsReg(parts[3])
    THEN ErrorMsg(<<"Invalid register(s) in '">> \o instr \o <<"' in line: ">> \o line)
    ELSE IF IsReg(parts[4])
    THEN Str(LJust(opcode \o <<"0">> \o Reg4(parts[2]) \o Reg4(parts[3]) \o Reg4(parts[4]), 32))
    ELSE IF ~IsInt(parts[4])
    THEN ErrorMsg(<<"Invalid immediate value '">> \o parts[4] \o <<"' for '">> \o instr
                  \o <<"' in line: ">> \o line)
    ELSE Str(opcode \o <<"1">> \o Reg4(parts[2]) \o Reg4(parts[3]) \o ImmKind(modifier)
             \o Imm16(parts[4]))

\* nop, ret, hlt
ZeroOperand(opcode, instr, parts, line) ==
    IF Len(parts) > 1
    THEN ErrorMsg(<<"Unexpected operands for '">> \o instr \o <<"' in line: ">> \o line)
    ELSE Str(LJust(opcode, 32))

\* the offset of a branch to a known label, as it is rendered
LabelOffset(target, addr) == FormatZeroB(TwosComplement(target - addr, 27), 27)

\* the offset of a branch whose operand is an integer, as it is rendered
LiteralOffset(tok) == FormatSpaceB(ToInt(tok), 27)

\* call, b, beq, bgt
Branch(opcode, instr, parts, line, addr, labels) ==
    IF Len(parts) < 2
    THEN ErrorMsg(<<"Missing offset for branch instruction '">> \o instr \o <<"' in line: ">> \o line)
    ELSE IF Len(parts) > 2
    THEN ErrorMsg(<<"Unexpected operands for '">> \o instr \o <<"' in line: ">> \o line)
    ELSE IF parts[2] \in DOMAIN labels
    THEN Str(opcode \o LabelOffset(labels[parts[2]], addr))
    ELSE IF IsInt(parts[2])
    THEN Str(opcode \o LiteralOffset(parts[2]))
    ELSE ErrorMsg(<<"Label '">> \o parts[2] \o <<"' not found for branch instruction">>)

\* cmp
Compare(opcode, instr, modifier, parts, line) ==
    IF Len(parts) < 3
    THEN ErrorMsg(<<"Missing operands for '">> \o instr \o <<"' in line: ">> \o line)
    ELSE IF Len(parts) > 3
    THEN ErrorMsg(<<"Unexpected operands for '">> \o instr \o <<"' in line: ">> \o line)
    ELSE IF ~IsReg(parts[2])
    THEN ErrorMsg(<<"Invalid register(s) in '">> \o instr \o <<"' in line: ">> \o line)
    ELSE IF IsReg(parts[3])
    THEN Str(LJust(opcode \o <<"0", "0", "0", "0", "0">> \o Reg4(parts[2]) \o Reg4(parts[3]), 32))
    ELSE IF ~IsInt(parts[3])
    THEN ErrorMsg(<<"Invalid immediate value '">> \o parts[3] \o <<"' for '">> \o instr
                  \o <<"' in line: ">> \o line)
    ELSE Str(opcode \o <<"1", "0", "0", "0", "0">> \o Reg4(parts[2]) \o ImmKind(modifier)
             \o Imm16(parts[3]))

\* not, mov
UnaryRegImm(opcode, instr, modifier, parts, line) ==
    IF Len(parts) < 3
    THEN ErrorMsg(<<"Missing operands for '">> \o instr \o <<"' in line: ">> \o line)
    ELSE IF Len(parts) > 3
    THEN ErrorMsg(<<"Unexpected operands for '">> \o instr \o <<"' in line: ">> \o line)
    ELSE IF ~IsReg(parts[2])
    THEN ErrorMsg(<<"Invalid register(s) in '">> \o instr \o <<"' in line: ">> \o line)
    ELSE IF IsReg(parts[3])
    THEN Str(LJust(opcode \o <<"0">> \o Reg4(parts[2]) \o <<"0", "0", "0", "0">> \o Reg4(parts[3]), 32))
    ELSE IF ~IsInt(parts[3])
    THEN ErrorMsg(<<"Invalid immediate value '">> \o parts[3] \o <<"' for '">> \o instr
                  \o <<"' in line: ">> \o line)
    ELSE Str(opcode \o <<"1">> \o Reg4(parts[2]) \o <<"0", "0", "0", "0">> \o ImmKind(modifier)
             \o Imm16(parts[3]))

\* the displacement with the 16-bit adjustment of the other classes
Imm4Wide(tok) == FormatZeroB(TwosComplement(ToInt(tok), 16), 4)

\* f"{imm_val:04b}" after the sign adjustment of a displacement
Imm4(tok) == FormatZeroB(TwosComplement(ToInt(tok), 4), 4)

\* ld/st whose second operand starts with "[": the base is what follows the
\* bracket in that token, the index or displacement is parts[3] up to its "]"
MemoryBracket(opcode, instr, rd, parts, line) ==
    LET rs2  == parts[3]
        temp == SliceFrom(rs2, Find(rs2, "[") + 1)
    IN  IF ~IsReg(temp)
        THEN ErrorMsg(<<"Invalid register(s) in '">> \o instr \o <<"' in line: ">> \o line)
        ELSE IF Len(parts) < 4 THEN Raise("IndexError")
        ELSE LET rs3   == parts[4]
                 temp2 == SliceTo(rs3, Find(rs3, "]"))
             IN  IF IsReg(temp2)
                 THEN Str(LJust(opcode \o <<"0">> \o rd \o Reg4(temp) \o Reg4(temp2), 32))
                 ELSE IF ~IsInt(temp2) THEN Raise("ValueError")
                 ELSE Str(LJust(opcode \o <<"1">> \o rd \o Reg4(temp) \o Imm4(temp2), 32))

\* ld/st whose second operand is disp[base]
MemoryDisplacement(opcode, instr, rd, parts, line) ==
    LET rs2  == parts[3]
        a    == Find(rs2, "[")
        b    == Find(rs2, "]")
        rss1 == SliceTo(rs2, a)
        base == Slice(rs2, a + 1, b)
    IN  IF ~IsReg(base)
        THEN ErrorMsg(<<"Invalid register(s) in '">> \o instr \o <<"' in line: ">> \o line)
        ELSE IF IsReg(rss1)
        THEN Str(LJust(opcode \o <<"0">> \o rd \o Reg4(base) \o Reg4(rss1), 32))
        ELSE IF ~IsInt(rss1) THEN Raise("ValueError")
        ELSE Str(LJust(opcode \o <<"1">> \o rd \o Reg4(base) \o Imm4(rss1), 32))

\* ld, st
MemoryAccess(opcode, instr, parts, line) ==
    IF Len(parts) < 3
    THEN ErrorMsg(<<"Missing operands for '">> \o instr \o <<"' in line: ">> \o line)
    ELSE IF Len(parts) > 4
    THEN ErrorMsg(<<"Unexpected operands for '">> \o instr \o <<"' in line: ">> \o line)
    ELSE IF ~IsReg(parts[2])
    THEN ErrorMsg(<<"Invalid register(s) in '">> \o instr \o <<"' in line: ">> \o line)
    ELSE IF StartsWith(parts[3], <<"[">>)
    THEN MemoryBracket(opcode, instr, Reg4(parts[2]), parts, line)
    ELSE MemoryDisplacement(opcode, instr, Reg4(parts[2]), parts, line)

\* the class tests in the order the code makes them: the first on the base
\* mnemonic, the others on the mnemonic as written
Dispatch(opcode, instr, base_instr, parts, line, addr, labels) ==
    IF base_instr \in ArithLogicInstrs
    THEN ArithLogic(opcode, instr, Modifier(instr), parts, line)
    ELSE IF instr \in ZeroOperandInstrs THEN ZeroOperand(opcode, instr, parts, line)
    ELSE IF instr \in BranchInstrs THEN Branch(opcode, instr, parts, line, addr, labels)
    ELSE IF instr = CmpInstr THEN Compare(opcode, instr, Modifier(instr), parts, line)
    ELSE IF instr \in UnaryInstrs THEN UnaryRegImm(opcode, instr, Modifier(instr), parts, line)
    ELSE IF instr \in MemoryInstrs THEN MemoryAccess(opcode, instr, parts, line)
    ELSE ErrorMsg(<<"Unknown instruction '">> \o instr \o <<"' in line: ">> \o line)

parse_instruction(l1, addr, labels) ==
    LET line  == LineBody(l1)
        parts == Parts(l1)
    IN  IF parts = <<>> THEN None
        ELSE LET instr      == parts[1]
                 base_instr == BaseInstr(instr)
             IN  IF base_instr \notin DOMAIN opcode_map
                 THEN ErrorMsg(<<"Unknown instruction '">> \o instr \o <<"' in line: ">> \o line)
                 ELSE Dispatch(opcode_map[base_instr], instr, base_instr, parts, line,
                               addr, labels)

----------------------------------------------------------------------------
(* assemble_from_string and the "Convert to Binary" handler                *)

\* '\n'.join(ls)
RECURSIVE JoinLines(_)
JoinLines(ls) ==
    IF ls = <<>> THEN <<>>
    ELSE IF Len(ls) = 1 THEN ls[1]
    ELSE ls[1] \o <<"\n">> \o JoinLines(Tail(ls))

\* labels_dict[temp_label] = address
Store(labels, key, val) ==
    [k \in (DOMAIN labels) \cup {key} |-> IF k = key THEN val ELSE labels[k]]

\* temp_label = line[:a].strip()
LabelOf(line) == Strip(SliceTo(line, Find(line, ":")))

\* the element appended for a line whose encoding failed; the piece " -> "
\* stands for the arrow the source puts between the line and the message
Diagnostic(line_number, line, msg) ==
    ErrorPrefix \o <<" in line ">> \o IntToStr(line_number) \o <<": ">> \o Strip(line)
        \o <<" -> ">> \o msg

\* binary_code.startswith("Error")
IsError(s) == StartsWith(s, ErrorPrefix)

\* the flag set to the outcome of the last line instead of being raised for good
HasErrorOfLastLine(flag, failed) == failed

\* has_error after a line: set once a line failed, never cleared
HasError(flag, failed) == flag \/ failed

\* the button of the first tab: nothing is assembled from an empty text
Convert ==
    /\ pc = "idle"
    /\ IF asm_code = <<>>
       THEN /\ ui' = "warning"
            /\ pc' = "finished"
            /\ UNCHANGED <<lines, labels_dict, address, i>>
       ELSE /\ lines' = SplitLines(asm_code)
            /\ labels_dict' = <<>>
            /\ address' = 0
            /\ i' = 1
            /\ pc' = "pass1"
            /\ ui' = ui
    /\ UNCHANGED <<asm_code, result, has_error, exc, binary_content, line1, binary_code>>

\* one iteration of the first loop
Pass1Step ==
    /\ pc = "pass1"
    /\ i <= Len(lines)
    /\ LET line == lines[i]
       IN  IF Strip(line) = <<>>
           THEN UNCHANGED <<labels_dict, address>>
           ELSE /\ labels_dict' = IF Contains(line, ":")
                                  THEN Store(labels_dict, LabelOf(line), address)
                                  ELSE labels_dict
                /\ address' = address + 1
    /\ i' = i + 1
    /\ UNCHANGED <<asm_code, pc, lines, result, has_error, exc, ui, binary_content,
                   line1, binary_code>>

\* the first loop is over: the second starts from address 0
Pass1Done ==
    /\ pc = "pass1"
    /\ i > Len(lines)
    /\ result' = <<>>
    /\ address' = 0
    /\ has_error' = FALSE
    /\ i' = 1
    /\ pc' = "pass2"
    /\ UNCHANGED <<asm_code, lines, labels_dict, exc, ui, binary_content, line1,
                   binary_code>>

\* the address after a line of the second loop was encoded or diagnosed
NextAddress(addr, failed) == IF failed THEN addr ELSE addr + 1

\* one iteration of the second loop
Pass2Step ==
    /\ pc = "pass2"
    /\ i <= Len(lines)
    /\ LET line == lines[i]
           r    == parse_instruction(line, address, labels_dict)
       IN  IF Strip(line) = <<>> \/ r.tag = "None"
           THEN /\ i' = i + 1
                /\ UNCHANGED <<pc, result, has_error, address, exc>>
           ELSE IF r.tag # "str"
           THEN /\ pc' = "raised"
                /\ exc' = r.tag
                /\ UNCHANGED <<i, result, has_error, address>>
           ELSE /\ result' = Append(result, IF IsError(r.s)
                                            THEN Diagnostic(i, line, r.s)
                                            ELSE r.s)
                /\ has_error' = HasError(has_error, IsError(r.s))
                /\ address' = NextAddress(address, IsError(r.s))
                /\ i' = i + 1
                /\ UNCHANGED <<pc, exc>>
    /\ UNCHANGED <<asm_code, lines, labels_dict, ui, binary_content, line1, binary_code>>

\* return result, has_error
Return ==
    /\ pc = "pass2"
    /\ i > Len(lines)
    /\ pc' = "returned"
    /\ UNCHANGED <<asm_code, lines, i, address, labels_dict, result, has_error, exc,
                   ui, binary_content, line1, binary_code>>

\* what the handler does with the pair returned: the lines are shown as errors,
\* or joined into the content of the file offered for download
Show ==
    /\ pc = "returned"
    /\ IF has_error
       THEN /\ ui' = "errors"
            /\ UNCHANGED binary_content
       ELSE /\ ui' = "download"
            /\ binary_content' = JoinLines(result)
    /\ pc' = "finished"
    /\ UNCHANGED <<asm_code, lines, i, address, labels_dict, result, has_error, exc,
                   line1, binary_code>>

----------------------------------------------------------------------------
(* Inputs                                                                  *)

\* lines per text
MaxLines == 3

\* how far around each boundary of the immediate fields the immediates go
ImmSlack == 1

\* the addresses a direct call of parse_instruction is given
MaxAddr == 2

R(k) == <<"r">> \o IntToStr(k)

\* the operands joined the way a programmer writes them
RECURSIVE JoinOps(_)
JoinOps(ops) ==
    IF ops = <<>> THEN <<>>
    ELSE IF Len(ops) = 1 THEN ops[1]
    ELSE ops[1] \o <<",", " ">> \o JoinOps(Tail(ops))

Instr(mn, ops) == IF ops = <<>> THEN mn ELSE mn \o <<" ">> \o JoinOps(ops)

ADD == <<"a", "d", "d">>

HLT == <<"h", "l", "t">>

B == <<"b">>

LD == <<"l", "d">>

Lx == <<"x">>

Ly == <<"y">>

\* the lines the texts given to the handler are made of
TextLines ==
    { <<>>,
      <<" ">>,
      Lx \o <<":">>,
      Ly \o <<":">>,
      Instr(HLT, <<>>),
      Lx \o <<":", " ">> \o Instr(HLT, <<>>),
      Instr(B, <<Lx>>),
      Ly \o <<":", " ">> \o Instr(B, <<Lx>>),
      Instr(ADD \o <<"x">>, <<R(1)>>),
      Instr(B, <<IntToStr(5)>>),
      Instr(LD, <<R(1), <<"[">> \o R(2)>>),
      Instr(LD, <<R(1), <<"x", "[">> \o R(2) \o <<"]">>>>),
      Instr(ADD, <<R(1), R(2), IntToStr(70000)>>) }

Texts == { JoinLines(p) : p \in UNION { [1..n -> TextLines] : n \in 0..MaxLines } }

Init ==
    /\ asm_code \in Texts
    /\ pc = "idle"
    /\ lines = <<>>
    /\ i = 0
    /\ address = 0
    /\ labels_dict = <<>>
    /\ result = <<>>
    /\ has_error = FALSE
    /\ exc = ""
    /\ ui = "form"
    /\ binary_content = <<>>
    /\ line1 = <<>>
    /\ binary_code = None

Next == Convert \/ Pass1Step \/ Pass1Done \/ Pass2Step \/ Return \/ Show

Spec == Init /\ [][Next]_vars

----------------------------------------------------------------------------
(* parse_instruction called on its own                                     *)

Suffixes == { <<>>, <<"u">>, <<"h">> }

\* the boundaries of the 4-bit and 16-bit fields, as signed and as unsigned values
ImmCentres == { -65536, -32768, -16, 0, 16, 32768, 65535 }

Imms == UNION { (c - ImmSlack)..(c + ImmSlack) : c \in ImmCentres }

ImmToks == { IntToStr(v) : v \in Imms }

NotAnOperand == <<"x", "1">>

\* a last operand: a register, an integer, or neither
LastToks == { R(0), R(9) } \cup ImmToks \cup { NotAnOperand }

DestToks == { R(1), R(16) }

ArithOps ==
    { <<rd, rs1, t>> : rd \in DestToks, rs1 \in { R(15), NotAnOperand }, t \in LastToks }
    \cup { <<>>, <<R(1)>>, <<R(1), R(2)>>, <<R(16), R(2)>>, <<R(1), R(2), R(3), R(4)>>,
           <<R(1), R(2), NotAnOperand, R(4)>>, <<R(16), R(2), IntToStr(5), R(4)>> }

TwoOps ==
    { <<rd, t>> : rd \in DestToks, t \in LastToks }
    \cup { <<>>, <<R(1)>>, <<R(16)>>, <<R(1), R(2), R(3)>>, <<R(16), R(2), R(3)>>,
           <<R(1), NotAnOperand, R(3)>> }

ZeroOps == { <<>>, <<R(1)>> }

BranchOps ==
    { <<>>, <<Lx>>, <<Ly>>, <<Lx, Ly>>, <<IntToStr(5)>>, <<IntToStr(5), IntToStr(6)>> }
    \cup { <<t>> : t \in ImmToks }

BaseToks == { R(2), R(12), R(16) }

IndexToks == { R(3) } \cup ImmToks \cup { NotAnOperand }

MemoryOps ==
    UNION { { <<rd, x \o <<"[">> \o rb \o <<"]">>>>,
              <<rd, x \o <<"[">> \o rb>>,
              <<rd, x \o <<"[">> \o rb \o <<"]">>, R(3)>>,
              <<rd, <<"[">> \o rb, x \o <<"]">>>>,
              <<rd, <<"[">> \o rb, x>>,
              <<rd, <<"[">> \o rb \o <<"]">>, x>>,
              <<rd, <<"[">> \o rb, x \o <<"]">>, R(3)>>,
              <<rd, <<"[">> \o rb>>,
              <<rd, <<"[">> \o rb \o <<"]">>>>,
              <<rd>> }
            : <<rd, rb, x>> \in DestToks \X BaseToks \X IndexToks }
    \cup { <<>> }

WithSuffix(mns, opss) == { Instr(mn \o sf, ops) : <<mn, sf, ops>> \in mns \X Suffixes \X opss }

Labelled(ls) == ls \cup { Lx \o <<":", " ">> \o l : l \in ls }

\* the lines whose encoding reads the address and the label table
BranchLines == Labelled(WithSuffix(BranchInstrs, BranchOps))

OtherLines ==
    WithSuffix(ArithLogicInstrs, ArithOps)
    \cup WithSuffix({CmpInstr} \cup UnaryInstrs, TwoOps)
    \cup Labelled(WithSuffix(ZeroOperandInstrs, ZeroOps))
    \cup WithSuffix(MemoryInstrs, MemoryOps)
    \cup { Instr(ADD \o <<"x">>, <<R(1), R(2), R(3)>>), Lx \o <<":">> }

LabelTables == { <<>> } \cup [{Lx} -> 0..MaxAddr]

InitParse ==
    /\ \/ /\ line1 \in BranchLines
          /\ address \in 0..MaxAddr
          /\ labels_dict \in LabelTables
       \/ /\ line1 \in OtherLines
          /\ address = 0
          /\ labels_dict = <<>>
    /\ pc = "call"
    /\ binary_code = None
    /\ asm_code = <<>>
    /\ lines = <<>>
    /\ i = 0
    /\ result = <<>>
    /\ has_error = FALSE
    /\ exc = ""
    /\ ui = "form"
    /\ binary_content = <<>>

\* binary_code = parse_instruction(line, address, labels_dict)
ParseCall ==
    /\ pc = "call"
    /\ binary_code' = parse_instruction(line1, address, labels_dict)
    /\ pc' = "ret"
    /\ UNCHANGED <<asm_code, lines, i, address, labels_dict, result, has_error, exc, ui,
                   binary_content, line1>>

NextParse == ParseCall

SpecParse == InitParse /\ [][NextParse]_vars

----------------------------------------------------------------------------
(* What the claims speak of                                                *)

RECURSIVE Bits(_, _)
\* the n-digit binary numeral of v modulo 2^n
Bits(v, n) ==
    IF n = 0 THEN <<>>
    ELSE Append(Bits((v - (v % 2)) \div 2, n - 1), IF v % 2 = 1 THEN "1" ELSE "0")

RECURSIVE BinVal(_)
\* the number a binary numeral denotes
BinVal(bs) ==
    IF bs = <<>> THEN 0
    ELSE 2 * BinVal(SubSeq(bs, 1, Len(bs) - 1)) + (IF bs[Len(bs)] = "1" THEN 1 ELSE 0)

\* an Encoded Word: exactly 32 characters, each '0' or '1'
IsWord(s) == Len(s) = 32 /\ \A k \in 1..Len(s) : s[k] \in {"0", "1"}

\* a line that yields an instruction: not blank and not a label-only declaration
IsInstrLine(line) == Strip(line) # <<>> /\ Parts(line) # <<>>

\* the number of instruction lines among the first n lines
InstrBefore(ls, n) == Cardinality({ k \in 1..n : IsInstrLine(ls[k]) })

\* line k declares a label
Declares(ls, k) == Strip(ls[k]) # <<>> /\ Contains(ls[k], ":")

\* the first message piece of an operand-count Diagnostic
CountMessages ==
    { "Missing operands for instruction '", "Unexpected operands for instruction '",
      "Missing operands for '", "Unexpected operands for '",
      "Missing offset for branch instruction '" }

IsCountDiagnostic(r) ==
    r.tag = "str" /\ IsError(r.s) /\ Len(r.s) >= 8 /\ r.s[8] \in CountMessages

\* a mnemonic of the set, bare or with one modifier letter
Suffixed(mns) == { m \o sf : m \in mns, sf \in Suffixes }

ImmFormInstrs == ArithLogicInstrs \cup {CmpInstr} \cup UnaryInstrs

\* the operand tokens of a line are valid for the immediate form of its class
ImmOperands(base, ops) ==
    \/ base \in ArithLogicInstrs /\ Len(ops) = 3 /\ IsReg(ops[1]) /\ IsReg(ops[2])
       /\ ~IsReg(ops[3]) /\ IsInt(ops[3])
    \/ base \in {CmpInstr} \cup UnaryInstrs /\ Len(ops) = 2 /\ IsReg(ops[1])
       /\ ~IsReg(ops[2]) /\ IsInt(ops[2])

\* the operand count is wrong for the class of the base mnemonic; a ld/st in
\* the bracketed-base form takes three operand tokens, otherwise two
WrongCount(base, ops) ==
    \/ base \in ArithLogicInstrs /\ Len(ops) # 3
    \/ base \in ZeroOperandInstrs /\ Len(ops) # 0
    \/ base \in BranchInstrs /\ Len(ops) # 1
    \/ base \in {CmpInstr} \cup UnaryInstrs /\ Len(ops) # 2
    \/ base \in MemoryInstrs
       /\ \/ Len(ops) < 2
          \/ Len(ops) > 3
          \/ StartsWith(ops[2], <<"[">>) /\ Len(ops) # 3
          \/ ~StartsWith(ops[2], <<"[">>) /\ Len(ops) # 2

----------------------------------------------------------------------------
(* The claims                                                              *)

\* C1: every element of the result that is not a Diagnostic is an Encoded Word
\* of exactly 32 characters, each '0' or '1'.
C1_EveryWordIs32Bits ==
    \A k \in 1..Len(result) : ~IsError(result[k]) => IsWord(result[k])

\* C2: assemble_from_string never raises, and the result it returns holds one
\* element for every non-blank line that is not a label-only declaration.
C2_ReturnsOnePerLine ==
    /\ pc # "raised"
    /\ pc = "returned" => Len(result) = InstrBefore(lines, Len(lines))

\* C3: after pass 1 every label maps to the number of instruction lines that
\* precede the line declaring it (the last one, when it is declared twice).
C3_LabelsCountInstructions ==
    pc = "pass2" =>
        \A k \in 1..Len(lines) :
            (Declares(lines, k)
             /\ \A j \in (k + 1)..Len(lines) :
                    ~(Declares(lines, j) /\ LabelOf(lines[j]) = LabelOf(lines[k])))
            => /\ LabelOf(lines[k]) \in DOMAIN labels_dict
               /\ labels_dict[LabelOf(lines[k])] = InstrBefore(lines, k - 1)

\* C4: a branch with exactly one operand encodes to its opcode followed by the
\* 27-bit two's complement of the offset: label address minus current address
\* for a known label, the operand's own value for an integer.
C4_BranchOffset27 ==
    pc = "ret" =>
        LET parts == Parts(line1)
        IN  (Len(parts) = 2 /\ parts[1] \in BranchInstrs
             /\ (parts[2] \in DOMAIN labels_dict \/ IsInt(parts[2])))
            => binary_code =
                 Str(opcode_map[parts[1]]
                     \o Bits(IF parts[2] \in DOMAIN labels_dict
                             THEN labels_dict[parts[2]] - address
                             ELSE ToInt(parts[2]), 27))

\* C5: with 'u' or 'h' appended to a mnemonic that has an immediate form, a
\* valid immediate operand list encodes to the word of the bare mnemonic with
\* the immediate-kind field 01 or 10 in place of 00.
C5_SuffixOnlySetsKind ==
    pc = "ret" =>
        LET parts == Parts(line1)
        IN  \A base \in ImmFormInstrs : \A sf \in {"u", "h"} :
              (parts # <<>> /\ parts[1] = Append(base, sf) /\ ImmOperands(base, Tail(parts)))
              => LET plain == parse_instruction(Instr(base, Tail(parts)), address, labels_dict)
                 IN  /\ plain.tag = "str"
                     /\ binary_code.tag = "str"
                     /\ ~IsError(binary_code.s)
                     /\ binary_code.s = [plain.s EXCEPT ![15] = ImmKind(sf)[1],
                                                        ![16] = ImmKind(sf)[2]]

\* the words the memory-access layouts prescribe
MemRegWord(m, rd, rb, ri) ==
    LJust(opcode_map[m] \o <<"0">> \o Bits(registers[rd], 4) \o Bits(registers[rb], 4)
          \o Bits(registers[ri], 4), 32)

MemImmWord(m, rd, rb, v) ==
    LJust(opcode_map[m] \o <<"1">> \o Bits(registers[rd], 4) \o Bits(registers[rb], 4)
          \o Bits(v, 4), 32)

C7_CountErrorFirst ==
    pc = "ret" =>
        LET parts == Parts(line1)
        IN  (parts # <<>>
             /\ (parts[1] \in DOMAIN opcode_map \/ parts[1] \in Suffixed(ArithLogicInstrs))
             /\ WrongCount(BaseInstr(parts[1]), Tail(parts)))
            => IsCountDiagnostic(binary_code)

\* C8 as stated: a returned result that holds a Diagnostic holds no Encoded
\* Word, and has_error is true.
C8_NoWordBesideDiagnostic ==
    pc \in {"returned", "finished"} =>
        ((\E k \in 1..Len(result) : IsError(result[k]))
         => /\ has_error
            /\ \A k \in 1..Len(result) : IsError(result[k]))

\* C8, amended: Diagnostics and the binary content are mutually exclusive at the
\* batch level. In a returned result has_error is true exactly when some element
\* is a Diagnostic, the elements of the lines that did encode staying in it in
\* line order; the handler builds the binary content only from a result without
\* a Diagnostic, and with has_error true it shows the lines and builds none.
C8_NoArtifactBesideDiagnostic ==
    /\ pc \in {"returned", "finished"}
       => /\ has_error <=> \E k \in 1..Len(result) : IsError(result[k])
          /\ Len(result) = InstrBefore(lines, Len(lines))
    /\ ui = "download"
       => /\ \A k \in 1..Len(result) : ~IsError(result[k])
          /\ binary_content = JoinLines(result)
    /\ (pc = "finished" /\ has_error) => (ui = "errors" /\ binary_content = <<>>)

\* C8, witness: the handler has shown a result that holds a Diagnostic and the
\* word of a line that did encode
C8_MixedResultShown ==
    /\ pc = "finished"
    /\ ui = "errors"
    /\ \E k \in 1..Len(result) : IsError(result[k])
    /\ \E k \in 1..Len(result) : IsWord(result[k])

\* C9: an immediate v in -32768..65535 of an ArithLogic, cmp, not or mov
\* instruction with valid registers gives a word of 32 characters whose last 16
\* are v modulo 2^16 in binary; read back (signed for v < 0) they give v.
C9_Imm16RoundTrip ==
    pc = "ret" =>
        LET parts == Parts(line1)
        IN  \A base \in ImmFormInstrs :
              (parts # <<>>
               /\ (parts[1] = base \/ (base \in ArithLogicInstrs /\ parts[1] \in Suffixed({base})))
               /\ ImmOperands(base, Tail(parts))
               /\ ToInt(parts[Len(parts)]) \in -32768..65535)
              => LET v     == ToInt(parts[Len(parts)])
                     field == SubSeq(binary_code.s, 17, 32)
                 IN  /\ binary_code.tag = "str"
                     /\ IsWord(binary_code.s)
                     /\ field = Bits(v, 16)
                     /\ v = IF v < 0 THEN BinVal(field) - 65536 ELSE BinVal(field)

\* C9, witness: the most negative immediate of the range was encoded by mov
C9_MostNegativeEncoded ==
    /\ pc = "ret"
    /\ LET parts == Parts(line1)
       IN  /\ Len(parts) = 3
           /\ parts[1] = <<"m", "o", "v">>
           /\ IsReg(parts[2])
           /\ parts[3] = IntToStr(-32768)
    /\ binary_code.tag = "str"
    /\ ~IsError(binary_code.s)

\* C10: in pass 2 the k-th instruction line (0-based, failed lines counted) is
\* passed to parse_instruction with address k.
C10_AddressCountsEveryInstruction ==
    (pc = "pass2" /\ i <= Len(lines) /\ IsInstrLine(lines[i]))
    => address = InstrBefore(lines, i - 1)

====
